---- MODULE Spec2Model ----
(***************************************************************************)
(* openrouteservice.client.Client: the request dispatcher.                 *)
(*                                                                         *)
(* Time is counted in ticks of 1/Second seconds; `now` is the wall clock   *)
(* read by datetime.now() and time.time().  A call of Client.request is a  *)
(* record call[t]; its field pc is the place where the call is blocked:    *)
(* in the backoff sleep (line 157), in the rate-limit sleep (line 176) or  *)
(* in the HTTP request (line 193), whose return (pc = "response") and the  *)
(* handling of what it returned are two steps.  Everything else the code   *)
(* runs between two blocking places is one step.                           *)
(***************************************************************************)
EXTENDS Integers, Sequences, FiniteSets, TLC

VARIABLES
    key,                    \* self.key
    base_url,               \* self.base_url
    retry_timeout,          \* self.retry_timeout, in ticks
    queries_per_minute,     \* self.queries_per_minute
    retry_over_query_limit, \* self.retry_over_query_limit
    sent_times,             \* self.sent_times, oldest first
    now,                    \* the wall clock
    call,                   \* the calls of request, by calling thread
    calls,                  \* how many calls of request were made
    refused,                \* how many 429 and 503 responses the server gave
    dispatched,             \* when the HTTP requests of the trailing minute went out
    returned,               \* the same, of the requests that returned a body
    _extra_params           \* self._extra_params, set by the API methods

config == <<key, base_url, retry_timeout, queries_per_minute, retry_over_query_limit>>
vars == <<key, base_url, retry_timeout, queries_per_minute, retry_over_query_limit,
          sent_times, now, call, calls, refused, dispatched, returned, _extra_params>>

-----------------------------------------------------------------------------
(* Bounds of the model *)

\* queries_per_minute is 1..MaxQueriesPerMinute; the clock is not advanced past
\* MaxTime seconds but to wake a sleeping call; request is called MaxCalls
\* times; the server answers 429 or 503 MaxRefused times.
MaxQueriesPerMinute == 2
MaxTime == 60
MaxCalls == 3
MaxRefused == 2
\* a params mapping has up to MaxParams keys
MaxParams == 2

(* Units and literals of the program *)

Second == 64
Minute == 60
None == -1
_DEFAULT_BASE_URL == "https://api.openrouteservice.org"
_RETRIABLE_STATUSES == {503}

Threads == {1, 2}
SeqThreads == {1}

\* the client has no attribute _extra_params
Absent == "absent"
\* the keyword argument extra_params of an API method, None when not given
ExtraParams == {"None", "{'c': 3}"}

\* a key that is None or empty is falsy at line 258
NoKey == ""
Keys == {NoKey, "KEY"}
BaseUrls == {_DEFAULT_BASE_URL, "http://localhost:8080/ors"}
Statuses == {200, 404, 429, 503}
Bodies == {"{}", "<html>"}
TransportErrors == {"requests.Timeout", "ConnectionError"}
\* values of random.random(), in ticks of a second: 1/2 and 3/4
RandomValues == {32, 48}
\* time that passes unobserved: while the caller is idle, while an HTTP request
\* is under way, while a call oversleeps
Steps == {30 * Second}
\* values of retry_timeout, in seconds
RetryTimeouts == {1}

Max(a, b) == IF a >= b THEN a ELSE b

RECURSIVE Pow(_, _)
Pow(b, e) == IF e = 0 THEN 1 ELSE b * Pow(b, e - 1)

-----------------------------------------------------------------------------
(* Parameters and URLs *)

Alphabet == <<"a", "api_key", "b">>

\* parameter values: Python ints and strs
PyInt(n) == [type |-> "int", n |-> n, s |-> ""]
PyStr(s) == [type |-> "str", n |-> 0, s |-> s]

KeyIndex(k) == CHOOSE i \in 1..Len(Alphabet) : Alphabet[i] = k

\* the order of Python's tuple comparison on (key, value) items with distinct keys
ItemLess(p, q) == KeyIndex(p[1]) < KeyIndex(q[1])

RECURSIVE Insert(_, _)
Insert(s, p) ==
    IF s = << >> THEN <<p>>
    ELSE IF ItemLess(p, Head(s)) THEN <<p>> \o s
    ELSE <<Head(s)>> \o Insert(Tail(s), p)

\* a bug: the items of the dict are not sorted
sorted_InsertionOrder(items) == items

RECURSIVE sorted(_)
sorted(items) ==
    IF items = << >> THEN << >> ELSE Insert(sorted(Tail(items)), Head(items))

\* str() of a value, as urlencode applies it: the decimal digits of a small int
Str(v) == IF v.type = "int" THEN <<"0", "1", "2", "3", "4", "5", "6", "7", "8", "9">>[v.n + 1]
          ELSE v.s

_normalize_for_urlencode(value) == value

\* the characters urllib's quote never escapes, without "~", which it escapes
\* before Python 3.7
AlwaysSafe ==
    {"a", "b", "c", "d", "e", "f", "g", "h", "i", "j", "k", "l", "m", "n", "o",
     "p", "q", "r", "s", "t", "u", "v", "w", "x", "y", "z",
     "A", "B", "C", "D", "E", "F", "G", "H", "I", "J", "K", "L", "M", "N", "O",
     "P", "Q", "R", "S", "T", "U", "V", "W", "X", "Y", "Z",
     "0", "1", "2", "3", "4", "5", "6", "7", "8", "9", "_", ".", "-"}

\* the two hex digits of the other characters the model passes
HexCode(ch) ==
    CASE ch = "&" -> "26" [] ch = "=" -> "3D" [] ch = "/" -> "2F"
      [] ch = "?" -> "3F" [] ch = "~" -> "7E" [] OTHER -> "25"

\* urllib's quote_plus
RECURSIVE quote_plus(_)
quote_plus(string) ==
    IF string = "" THEN ""
    ELSE LET ch == Head(string)
             quoted == IF ch \in AlwaysSafe THEN ch
                       ELSE IF ch = " " THEN "+"
                       ELSE "%" \o HexCode(ch)
         IN quoted \o quote_plus(Tail(string))

\* str.split(sep) for a separator of one character
RECURSIVE split(_, _)
split(string, sep) ==
    LET found == { n \in 1..Len(string) : SubSeq(string, n, n) = sep }
    IN IF found = {} THEN <<string>>
       ELSE LET first == CHOOSE n \in found : \A m \in found : n <= m
            IN <<SubSeq(string, 1, first - 1)>>
                  \o split(SubSeq(string, first + 1, Len(string)), sep)

\* the unreserved character that the hex digits h escape, "" when they escape
\* none; of the unreserved characters quote_plus escapes "~" alone
Unreserved(h) ==
    CASE h = "7E" -> "~" [] h = "2D" -> "-" [] h = "2E" -> "." [] h = "5F" -> "_"
      [] OTHER -> ""

\* the parts of a URI after each "%", the escapes of unreserved characters undone
RECURSIVE unquote_parts(_)
unquote_parts(parts) ==
    IF parts = << >> THEN ""
    ELSE LET part == Head(parts)
             h == SubSeq(part, 1, 2)
         IN (IF Len(part) >= 2 /\ Unreserved(h) # ""
             THEN Unreserved(h) \o SubSeq(part, 3, Len(part))
             ELSE "%" \o part) \o unquote_parts(Tail(parts))

\* requests.utils.unquote_unreserved: the URI is split at "%", and the escapes
\* of unreserved characters (letters, digits, "-", ".", "_", "~") are undone
unquote_unreserved(uri) ==
    LET parts == split(uri, "%")
    IN parts[1] \o unquote_parts(Tail(parts))

\* the keys and values of the parameters a caller passes
ParamKeys == {"a", "api_key", "b"}
ParamValues == {PyInt(1), PyInt(2), PyStr("x y&~")}

\* quote_plus of every string urlencode meets: the keys, str() of the values,
\* the key of the client
Quoted ==
    [string \in ParamKeys \cup { Str(v) : v \in ParamValues } \cup Keys |-> quote_plus(string)]

RECURSIVE urlencode(_)
urlencode(params) ==
    IF params = << >> THEN ""
    ELSE LET p == Head(params)
             item == Quoted[p[1]] \o "=" \o Quoted[Str(p[2])]
         IN IF Len(params) = 1 THEN item
            ELSE item \o "&" \o urlencode(Tail(params))

_urlencode_params(params) ==
    unquote_unreserved(
        urlencode([i \in 1..Len(params) |->
                      <<params[i][1], _normalize_for_urlencode(params[i][2])>>]))

\* The parameters a caller passes: a dict (its items in insertion order) or a
\* list of key/value tuples.
\* the items of the dicts of n keys, in every insertion order
ItemSeqs(n) ==
    { s \in [1..n -> ParamKeys \X ParamValues] :
        \A i, j \in 1..n : i # j => s[i][1] # s[j][1] }

Mappings ==
    UNION { { [is_dict |-> TRUE, items |-> s] : s \in ItemSeqs(n) } : n \in 0..MaxParams }

DictParams == { [is_dict |-> TRUE,  items |-> <<<<"b", PyInt(2)>>, <<"a", PyInt(1)>>>>] }
ListParams == { [is_dict |-> FALSE, items |-> <<<<"a", PyInt(1)>>>>] }

\* a bug: without a key the URL is refused whatever base_url is
_generate_auth_url_KeyRequired(path, params) ==
    LET local == IF params.is_dict THEN sorted(params.items) ELSE params.items
    IN IF key # NoKey
       THEN LET appended == Append(local, <<"api_key", PyStr(key)>>)
            IN [raised |-> FALSE,
                url |-> path \o "?" \o _urlencode_params(appended),
                params |-> IF params.is_dict THEN params
                           ELSE [params EXCEPT !.items = appended]]
       ELSE [raised |-> TRUE, url |-> "", params |-> params]

\* _generate_auth_url: [raised, url, params], params being the caller's object
\* after the call.  A dict is copied and sorted; a list is appended to in place.
_generate_auth_url(path, params) ==
    LET local == IF params.is_dict THEN sorted(params.items) ELSE params.items
    IN IF key # NoKey
       THEN LET appended == Append(local, <<"api_key", PyStr(key)>>)
            IN [raised |-> FALSE,
                url |-> path \o "?" \o _urlencode_params(appended),
                params |-> IF params.is_dict THEN params
                           ELSE [params EXCEPT !.items = appended]]
       ELSE IF base_url # _DEFAULT_BASE_URL
       THEN [raised |-> FALSE,
             url |-> path \o "?" \o _urlencode_params(local),
             params |-> params]
       ELSE [raised |-> TRUE, url |-> "", params |-> params]

-----------------------------------------------------------------------------
(* Outcomes of a call *)

NoResponse == [status |-> 0, body |-> "", error |-> "none"]
NoOutcome == [kind |-> "none", type |-> "", status |-> 0, body |-> ""]
Return(type, status, body) ==
    [kind |-> "return", type |-> type, status |-> status, body |-> body]
Raise(type, status, body) ==
    [kind |-> "raise", type |-> type, status |-> status, body |-> body]

\* A call of request: its arguments (url, params, dry_run, first_request_time,
\* retry_counter, the last two those of the running attempt), its locals
\* (authed_url, response), the place it is blocked at (pc, wake) and what an
\* observer of the call notes: whether an API method made the call (api); the
\* params as the caller gave them; when the
\* call started and what the window was then;
\* of its running attempt, when it started, the backoff delay it asked for,
\* when it reached the rate limit of line 171 and the oldest entry of the full
\* window it found there, and how long its backoff sleep, its rate-limit sleep
\* and its HTTP request took; when the last HTTP request went out and how many
\* went out; how the call ended and when.
IdleCall ==
    [pc |-> "idle", api |-> FALSE,
     url |-> "", params |-> [is_dict |-> TRUE, items |-> << >>],
     given |-> [is_dict |-> TRUE, items |-> << >>],
     dry_run |-> FALSE, first_request_time |-> None, retry_counter |-> 0,
     wake |-> None, authed_url |-> "", response |-> NoResponse,
     started |-> None, window_before |-> << >>, attempt_started |-> None,
     delay |-> 0, limit_checked_at |-> None, oldest |-> None,
     slept |-> 0, waited |-> 0, http |-> 0,
     sent_at |-> None, dispatches |-> 0, outcome |-> NoOutcome, ended |-> None]

Done(c, outcome) == [c EXCEPT !.pc = "done", !.outcome = outcome, !.ended = now]

\* response.json(): the parsed body, or a ValueError when the body is no JSON
IsJson(body) == body = "{}"

\* _get_body: the outcome of an attempt whose response is not retried at line 200
_get_body(response) ==
    IF ~IsJson(response.body) THEN Raise("JSONDecodeError", 0, "")
    ELSE IF response.status = 429
    THEN Raise("_OverQueryLimit", response.status, response.body)
    ELSE IF response.status # 200
    THEN Raise("ApiError", response.status, response.body)
    ELSE Return("json", response.status, response.body)

\* exceptions._OverQueryLimit is an exceptions._RetriableRequest
IsRetriableRequest(outcome) == outcome.type = "_OverQueryLimit"

\* a bug: the window is a list, which append never shortens
DequeAppend_Unbounded(d, x) == Append(d, x)

\* collections.deque(maxlen = queries_per_minute).append
DequeAppend(d, x) ==
    IF queries_per_minute = 0 THEN d
    ELSE IF Len(d) = queries_per_minute THEN Append(Tail(d), x)
    ELSE Append(d, x)

-----------------------------------------------------------------------------
(* Client.request, from one blocking place to the next *)

\* a bug: the delay doubles from one retry to the next
BackoffDelay_Doubling(retry_counter, random) ==
    Pow(2, retry_counter - 1) * (random + Second \div 2)

\* lines 154-157: delay_seconds * (random.random() + 0.5), in ticks; `random`
\* is the value of random.random() in ticks of a second
BackoffDelay(retry_counter, random) ==
    (Pow(3, retry_counter - 1) * (random + Second \div 2)) \div Pow(2, retry_counter - 1)

\* a bug: the window counts as full only beyond its capacity, which it never reaches
RateLimitSleep_BeyondCapacity(times) ==
    IF times # << >> /\ Len(times) > queries_per_minute
    THEN Max(0, Minute * Second - (now - times[1]))
    ELSE 0

\* a bug: the attempt sleeps for the time elapsed, not for the rest of the minute
RateLimitSleep_Elapsed(times) ==
    IF times # << >> /\ Len(times) = queries_per_minute
    THEN LET elapsed_since_earliest == now - times[1]
         IN IF elapsed_since_earliest < Minute * Second
            THEN elapsed_since_earliest
            ELSE 0
    ELSE 0

\* a bug: the rate limit never sleeps
RateLimitSleep_Never(times) == 0

\* a bug: an oldest entry of half a minute or more lets the attempt through
RateLimitSleep_HalfMinute(times) ==
    IF times # << >> /\ Len(times) = queries_per_minute
    THEN LET elapsed_since_earliest == now - times[1]
         IN IF 2 * elapsed_since_earliest < Minute * Second
            THEN Minute * Second - elapsed_since_earliest
            ELSE 0
    ELSE 0

\* lines 171-176: how long the rate limit makes an attempt sleep
RateLimitSleep(times) ==
    IF times # << >> /\ Len(times) = queries_per_minute
    THEN LET elapsed_since_earliest == now - times[1]
         IN IF elapsed_since_earliest < Minute * Second
            THEN Minute * Second - elapsed_since_earliest
            ELSE 0
    ELSE 0

\* a bug: dry_run is not looked at and the HTTP request goes out
Dispatch_IgnoresDryRun(c) ==
    [c EXCEPT !.pc = "dispatch", !.sent_at = now, !.dispatches = @ + 1]

\* lines 178-194: a dry run returns, or else the HTTP request goes out
Dispatch(c) ==
    IF c.dry_run THEN Done(c, Return("None", 0, ""))
    ELSE [c EXCEPT !.pc = "dispatch", !.sent_at = now, !.dispatches = @ + 1]

\* lines 159-194: the attempt after its backoff
AfterBackoff(c) ==
    LET auth == _generate_auth_url(c.url, c.params)
        c1 == [c EXCEPT !.params = auth.params, !.authed_url = auth.url,
                        !.limit_checked_at = now,
                        !.oldest = IF Len(sent_times) = queries_per_minute
                                   THEN sent_times[1] ELSE None]
        wait == RateLimitSleep(sent_times)
    IN IF auth.raised THEN Done(c, Raise("ValueError", 0, ""))
       ELSE IF wait > 0 THEN [c1 EXCEPT !.pc = "ratewait", !.wake = now + wait]
       ELSE Dispatch(c1)

\* a bug: the deadline is passed as soon as retry_timeout is reached
Attempt_DeadlineAtBudget(c, first_request_time, retry_counter, random) ==
    LET first == IF first_request_time = None THEN now ELSE first_request_time
        elapsed == now - first
        c1 == [c EXCEPT !.first_request_time = first,
                        !.retry_counter = retry_counter,
                        !.response = NoResponse]
    IN IF elapsed >= retry_timeout THEN Done(c1, Raise("Timeout", 0, ""))
       ELSE LET c2 == [c1 EXCEPT !.attempt_started = now, !.delay = 0,
                                 !.limit_checked_at = None, !.oldest = None,
                                 !.slept = 0, !.waited = 0, !.http = 0]
            IN IF retry_counter > 0
               THEN [c2 EXCEPT !.pc = "backoff",
                               !.delay = BackoffDelay(retry_counter, random),
                               !.wake = now + BackoffDelay(retry_counter, random)]
               ELSE AfterBackoff(c2)

\* lines 143-157: an attempt starts
Attempt(c, first_request_time, retry_counter, random) ==
    LET first == IF first_request_time = None THEN now ELSE first_request_time
        elapsed == now - first
        c1 == [c EXCEPT !.first_request_time = first,
                        !.retry_counter = retry_counter,
                        !.response = NoResponse]
    IN IF elapsed > retry_timeout THEN Done(c1, Raise("Timeout", 0, ""))
       ELSE LET c2 == [c1 EXCEPT !.attempt_started = now, !.delay = 0,
                                 !.limit_checked_at = None, !.oldest = None,
                                 !.slept = 0, !.waited = 0, !.http = 0]
            IN IF retry_counter > 0
               THEN [c2 EXCEPT !.pc = "backoff",
                               !.delay = BackoffDelay(retry_counter, random),
                               !.wake = now + BackoffDelay(retry_counter, random)]
               ELSE AfterBackoff(c2)

\* a bug: the retry does not pass first_request_time on
Retry_FreshDeadline(c, random) ==
    Attempt(c, None, c.retry_counter + 1, random)

\* lines 204-205 and 217-219: the recursive call of a retry
Retry(c, random) ==
    Attempt(c, c.first_request_time, c.retry_counter + 1, random)

\* a bug: a transport timeout is retried like a 503
Handle_RetriesTimeout(c, random) ==
    LET got == _get_body(c.response)
        Ends(o) == [call |-> Done(c, o), sent_times |-> sent_times]
        Retries == [call |-> Retry(c, random), sent_times |-> sent_times]
    IN IF c.response.error = "requests.Timeout" THEN Retries
       ELSE IF c.response.error # "none" THEN Ends(Raise("TransportError", 0, ""))
       ELSE IF c.response.status \in _RETRIABLE_STATUSES THEN Retries
       ELSE IF got.kind = "return"
       THEN [call |-> Done(c, got), sent_times |-> DequeAppend(sent_times, now)]
       ELSE IF IsRetriableRequest(got)
       THEN IF got.type = "_OverQueryLimit" /\ ~retry_over_query_limit
            THEN Ends(got)
            ELSE Retries
       ELSE Ends(got)

\* a bug: the send time is recorded as soon as a response is there
Handle_RecordsEveryResponse(c, random) ==
    LET got == _get_body(c.response)
        recorded == DequeAppend(sent_times, now)
        Ends(o) == [call |-> Done(c, o), sent_times |-> recorded]
        Retries == [call |-> Retry(c, random), sent_times |-> recorded]
    IN IF c.response.error = "requests.Timeout"
       THEN [call |-> Done(c, Raise("Timeout", 0, "")), sent_times |-> sent_times]
       ELSE IF c.response.error # "none"
       THEN [call |-> Done(c, Raise("TransportError", 0, "")), sent_times |-> sent_times]
       ELSE IF c.response.status \in _RETRIABLE_STATUSES THEN Retries
       ELSE IF got.kind = "return" THEN Ends(got)
       ELSE IF IsRetriableRequest(got)
       THEN IF got.type = "_OverQueryLimit" /\ ~retry_over_query_limit
            THEN Ends(got)
            ELSE Retries
       ELSE Ends(got)

\* lines 195-221: what request does with c.response; [call, sent_times]
Handle(c, random) ==
    LET got == _get_body(c.response)
        Ends(o) == [call |-> Done(c, o), sent_times |-> sent_times]
        Retries == [call |-> Retry(c, random), sent_times |-> sent_times]
    IN IF c.response.error = "requests.Timeout" THEN Ends(Raise("Timeout", 0, ""))
       ELSE IF c.response.error # "none" THEN Ends(Raise("TransportError", 0, ""))
       ELSE IF c.response.status \in _RETRIABLE_STATUSES THEN Retries
       ELSE IF got.kind = "return"
       THEN [call |-> Done(c, got), sent_times |-> DequeAppend(sent_times, now)]
       ELSE IF IsRetriableRequest(got)
       THEN IF got.type = "_OverQueryLimit" /\ ~retry_over_query_limit
            THEN Ends(got)
            ELSE Retries
       ELSE Ends(got)

Responses ==
    { [status |-> s, body |-> b, error |-> "none"] : s \in Statuses, b \in Bodies }
    \cup { [status |-> 0, body |-> "", error |-> e] : e \in TransportErrors }

Refusal(response) == response.status \in {429, 503}

-----------------------------------------------------------------------------
(* Actions *)

Init ==
    /\ key \in Keys
    /\ base_url \in BaseUrls
    /\ retry_timeout \in { s * Second : s \in RetryTimeouts }
    /\ queries_per_minute \in 1..MaxQueriesPerMinute
    /\ retry_over_query_limit \in BOOLEAN
    /\ sent_times = << >>
    /\ now = 0
    /\ call = [t \in Threads |-> IdleCall]
    /\ calls = 0
    /\ refused = 0
    /\ dispatched = << >>
    /\ returned = << >>
    /\ _extra_params = Absent

\* the entries of a history later than one minute before time t
Trailing(h, t) == SelectSeq(h, LAMBDA x : x > t - Minute * Second)

\* no entry that is still to come to the history `returned` is earlier
Horizon(cs, time) ==
    LET flying == { cs[t].sent_at : t \in { u \in Threads : cs[u].pc \in {"dispatch", "response"} } }
    IN IF \E x \in flying : x < time
       THEN CHOOSE x \in flying : \A y \in flying : x <= y
       ELSE time

\* the histories, after a call moved from c to d
Log(c, d) ==
    /\ dispatched' = IF d.dispatches > c.dispatches
                     THEN Trailing(Append(dispatched, now), now)
                     ELSE dispatched
    /\ returned' = IF d.outcome.kind = "return" /\ d.outcome.type = "json"
                   THEN Trailing(Append(returned, c.sent_at), Horizon(call, now))
                   ELSE returned

\* lines 293-298: the call of request that an API method made has ended in
\* this step of thread t, and the wrapper of the method goes on: the attribute
\* is deleted when the method returned, and is not when it raised
Wrapper(t) ==
    _extra_params' = IF /\ call[t].api
                        /\ call[t].pc # "done"
                        /\ call'[t].pc = "done"
                        /\ call'[t].outcome.kind = "return"
                     THEN Absent
                     ELSE _extra_params

\* a caller calls request(url, params, dry_run = ...)
Request(t, choices) ==
    /\ call[t].pc \in {"idle", "done"}
    /\ calls < MaxCalls
    /\ calls' = calls + 1
    /\ \E params \in choices, dry_run \in BOOLEAN :
          LET c == [IdleCall EXCEPT !.url = "/directions", !.params = params,
                                    !.given = params,
                                    !.dry_run = dry_run, !.started = now,
                                    !.window_before = sent_times]
              d == Attempt(c, None, 0, 0)
          IN /\ call' = [call EXCEPT ![t] = d]
             /\ Log(c, d)
    /\ UNCHANGED <<config, _extra_params, sent_times, now, refused>>

\* time.sleep of line 157 returns
BackoffOver(t) ==
    /\ call[t].pc = "backoff"
    /\ now >= call[t].wake
    /\ LET d == AfterBackoff([call[t] EXCEPT !.slept = now - call[t].attempt_started])
       IN /\ call' = [call EXCEPT ![t] = d]
          /\ Log(call[t], d)
    /\ UNCHANGED <<config, sent_times, now, calls, refused>>
    /\ Wrapper(t)

\* time.sleep of line 176 returns
RateLimitOver(t) ==
    /\ call[t].pc = "ratewait"
    /\ now >= call[t].wake
    /\ LET d == Dispatch([call[t] EXCEPT !.waited = now - call[t].limit_checked_at])
       IN /\ call' = [call EXCEPT ![t] = d]
          /\ Log(call[t], d)
    /\ UNCHANGED <<config, sent_times, now, calls, refused>>
    /\ Wrapper(t)

\* the HTTP request of line 193 returns a response or fails
Response(t) ==
    /\ call[t].pc = "dispatch"
    /\ \E response \in Responses :
          /\ Refusal(response) => refused < MaxRefused
          /\ refused' = IF Refusal(response) THEN refused + 1 ELSE refused
          /\ call' = [call EXCEPT ![t].pc = "response", ![t].response = response,
                                   ![t].http = now - call[t].sent_at]
    /\ UNCHANGED <<config, _extra_params, sent_times, now, calls, dispatched, returned>>

\* request goes on with the response, lines 195-221
Handling(t) ==
    /\ call[t].pc = "response"
    /\ \E random \in RandomValues :
          LET h == Handle(call[t], random)
          IN /\ call' = [call EXCEPT ![t] = h.call]
             /\ sent_times' = h.sent_times
             /\ Log(call[t], h.call)
    /\ UNCHANGED <<config, now, calls, refused>>
    /\ Wrapper(t)

Sleeping == { t \in Threads : call[t].pc \in {"backoff", "ratewait"} /\ call[t].wake > now }

\* time passes
Tick ==
    /\ \A t \in Threads : call[t].pc # "response"
    /\ \E d \in Steps :
          /\ now + d <= MaxTime * Second
          /\ now' = now + d
    /\ dispatched' = Trailing(dispatched, now')
    /\ returned' = Trailing(returned, Horizon(call, now'))
    /\ UNCHANGED <<config, _extra_params, sent_times, call, calls, refused>>

\* time passes until the first sleeping call is due
Wake ==
    /\ Sleeping # {}
    /\ now' = CHOOSE w \in { call[t].wake : t \in Sleeping } :
                 \A t \in Sleeping : w <= call[t].wake
    /\ dispatched' = Trailing(dispatched, now')
    /\ returned' = Trailing(returned, Horizon(call, now'))
    /\ UNCHANGED <<config, _extra_params, sent_times, call, calls, refused>>

Next ==
    \/ \E t \in SeqThreads : Request(t, DictParams)
    \/ \E t \in SeqThreads : BackoffOver(t)
    \/ \E t \in SeqThreads : RateLimitOver(t)
    \/ \E t \in SeqThreads : Response(t)
    \/ \E t \in SeqThreads : Handling(t)
    \/ Tick
    \/ Wake

Spec == Init /\ [][Next]_vars

\* the callers pass params as a dict or as a list of key/value tuples
ParamsNext ==
    \/ \E t \in SeqThreads : Request(t, DictParams \cup ListParams)
    \/ \E t \in SeqThreads : BackoffOver(t)
    \/ \E t \in SeqThreads : RateLimitOver(t)
    \/ \E t \in SeqThreads : Response(t)
    \/ \E t \in SeqThreads : Handling(t)
    \/ Tick
    \/ Wake

SpecParams == Init /\ [][ParamsNext]_vars

\* the HTTP request of line 193 returns, from a server that answers 200 or 404
\* with a JSON body
JsonResponse(t) ==
    /\ call[t].pc = "dispatch"
    /\ \E response \in { r \in Responses : /\ r.error = "none"
                                           /\ IsJson(r.body)
                                           /\ r.status \in {200, 404} } :
          call' = [call EXCEPT ![t].pc = "response", ![t].response = response,
                               ![t].http = now - call[t].sent_at]
    /\ UNCHANGED <<config, _extra_params, sent_times, now, calls, refused, dispatched, returned>>

\* two threads call request on the one client, with no lock
ConcNext ==
    \/ \E t \in Threads : Request(t, DictParams)
    \/ \E t \in Threads : RateLimitOver(t)
    \/ \E t \in Threads : JsonResponse(t)
    \/ \E t \in Threads : Handling(t)
    \/ Tick
    \/ Wake

SpecConc == Init /\ [][ConcNext]_vars

\* the params an API method passes to request
ApiParams == DictParams

\* a caller calls an API method: the wrapper sets the attribute at line 292,
\* the method calls request and returns what that returns
ApiMethod(t) ==
    /\ call[t].pc \in {"idle", "done"}
    /\ calls < MaxCalls
    /\ calls' = calls + 1
    /\ \E extra_params \in ExtraParams, params \in ApiParams, dry_run \in BOOLEAN :
          LET c == [IdleCall EXCEPT !.api = TRUE,
                                    !.url = "/directions", !.params = params,
                                    !.given = params,
                                    !.dry_run = dry_run, !.started = now,
                                    !.window_before = sent_times]
              d == Attempt(c, None, 0, 0)
          IN /\ call' = [call EXCEPT ![t] = d]
             /\ Log(c, d)
             /\ _extra_params' = IF d.pc = "done" /\ d.outcome.kind = "return"
                                  THEN Absent
                                  ELSE extra_params
    /\ UNCHANGED <<config, sent_times, now, refused>>

ApiNext ==
    \/ \E t \in SeqThreads : ApiMethod(t)
    \/ \E t \in SeqThreads : BackoffOver(t)
    \/ \E t \in SeqThreads : RateLimitOver(t)
    \/ \E t \in SeqThreads : Response(t)
    \/ \E t \in SeqThreads : Handling(t)
    \/ Tick
    \/ Wake

SpecApi == Init /\ [][ApiNext]_vars

\* the HTTP request of line 193 returns a response or fails; the server may
\* refuse as often as it likes
AnyResponse(t) ==
    /\ call[t].pc = "dispatch"
    /\ \E response \in Responses :
          call' = [call EXCEPT ![t].pc = "response", ![t].response = response,
                               ![t].http = now - call[t].sent_at]
    /\ UNCHANGED <<config, _extra_params, sent_times, now, calls, refused, dispatched, returned>>

LiveNext ==
    \/ \E t \in SeqThreads : Request(t, DictParams)
    \/ \E t \in SeqThreads : BackoffOver(t)
    \/ \E t \in SeqThreads : RateLimitOver(t)
    \/ \E t \in SeqThreads : AnyResponse(t)
    \/ \E t \in SeqThreads : Handling(t)
    \/ Tick
    \/ Wake

\* request goes on when it can: a sleep that is over returns, every HTTP
\* request returns or fails, and the clock reaches the end of every sleep
Fairness ==
    /\ \A t \in SeqThreads :
          /\ WF_vars(BackoffOver(t))
          /\ WF_vars(RateLimitOver(t))
          /\ WF_vars(AnyResponse(t))
          /\ WF_vars(Handling(t))
    /\ WF_vars(Wake)

SpecLive == Init /\ [][LiveNext]_vars /\ Fairness

\* _generate_auth_url alone, on a params mapping
BuildUrl(t) ==
    /\ call[t].pc = "idle"
    /\ \E params \in Mappings :
          LET auth == _generate_auth_url("/directions", params)
          IN call' = [call EXCEPT ![t] =
                        [IdleCall EXCEPT !.pc = "built", !.url = "/directions",
                                         !.given = params, !.params = auth.params,
                                         !.authed_url = auth.url,
                                         !.outcome = IF auth.raised
                                                     THEN Raise("ValueError", 0, "")
                                                     ELSE Return("str", 0, auth.url)]]
    /\ UNCHANGED <<config, _extra_params, sent_times, now, calls, refused, dispatched, returned>>

UrlNext == \E t \in SeqThreads : BuildUrl(t)

SpecUrl == Init /\ [][UrlNext]_vars

-----------------------------------------------------------------------------
(* The rate limit *)

\* some trailing minute, ending at an entry of h, holds more than n entries of h
MoreThanInAMinute(h, n) ==
    \E i \in 1..Len(h) :
        Cardinality({ j \in 1..Len(h) :
                        h[j] <= h[i] /\ h[j] > h[i] - Minute * Second }) > n

Ended(c) == c.pc = "done"
ReturnedBody(c) == Ended(c) /\ c.outcome.kind = "return" /\ c.outcome.type = "json"

\* C1, as claimed: no trailing 60-second window holds more than
\* queries_per_minute dispatched HTTP requests, every dispatch counted
\* (first attempts and retries, whatever the answer).
C1_EveryDispatchCounted == ~MoreThanInAMinute(dispatched, queries_per_minute)

\* C1, amended: no trailing 60-second window holds more than queries_per_minute
\* dispatched HTTP requests that returned a body to the caller (status 200 with
\* a JSON body); dispatches that end in a retry or an error are not counted.
C1_ReturnedDispatchesPerMinute == ~MoreThanInAMinute(returned, queries_per_minute)

\* C1 witness: a request that had to sleep for the rate limit has returned a
\* body, after as many requests as the window holds returned theirs.
C1_Witness ==
    \E t \in Threads :
        /\ ReturnedBody(call[t])
        /\ call[t].waited > 0
        /\ Len(call[t].window_before) = queries_per_minute

\* C2: an attempt that reaches the rate limit with a full window whose oldest
\* entry is less than 60 seconds old sleeps, and its HTTP request does not go
\* out before 60 seconds have passed since that entry; an attempt that finds
\* fewer entries than queries_per_minute, or an oldest entry of 60 seconds or
\* more, does not sleep: its request goes out (or its dry run returns) at once.
C2_RateLimitStep ==
    \A t \in Threads :
        LET c == call[t]
            due == c.oldest + Minute * Second
        IN c.limit_checked_at # None /\ c.outcome.type # "ValueError" =>
              IF c.oldest # None /\ c.limit_checked_at < due
              THEN \/ c.pc = "ratewait" /\ c.wake >= due
                   \/ c.pc # "ratewait" /\ c.dry_run /\ c.ended >= due
                   \/ c.pc # "ratewait" /\ ~c.dry_run /\ c.sent_at >= due
              ELSE /\ c.pc # "ratewait"
                   /\ c.waited = 0
                   /\ \/ c.dry_run /\ c.ended = c.limit_checked_at
                      \/ ~c.dry_run /\ c.sent_at = c.limit_checked_at

\* C2 witness: a request is on the wire after its attempt slept for the rate limit
C2_Witness ==
    \E t \in Threads :
        /\ call[t].pc = "dispatch"
        /\ call[t].oldest # None
        /\ call[t].waited > 0
        /\ call[t].sent_at >= call[t].oldest + Minute * Second

\* the longest backoff sleep retry k asks for, 1.5 * 1.5^(k - 1) seconds
LongestBackoff(k) == (Pow(3, k) * Second) \div Pow(2, k)

\* C3, as claimed: from the start of the first attempt to the end of the call
\* no more than retry_timeout plus one backoff sleep passes.
C3_BudgetPlusOneBackoff ==
    \A t \in Threads :
        Ended(call[t]) =>
            call[t].ended - call[t].started
                <= retry_timeout + LongestBackoff(Max(call[t].retry_counter, 1))

\* C3, amended: every attempt that gets past the deadline check starts no later
\* than retry_timeout after the first attempt, so from the start of the first
\* attempt to the end of the call no more than retry_timeout plus the last such
\* attempt's backoff sleep, rate-limit sleep and HTTP request passes.
C3_BudgetPlusLastAttempt ==
    \A t \in Threads :
        LET c == call[t]
        IN /\ c.attempt_started # None => c.attempt_started - c.started <= retry_timeout
           /\ Ended(c) => c.ended - c.started <= retry_timeout + c.slept + c.waited + c.http

\* C3 witness: a call that retried has ended later than retry_timeout after it started
C3_Witness ==
    \E t \in Threads :
        /\ Ended(call[t])
        /\ call[t].retry_counter > 0
        /\ call[t].ended - call[t].started > retry_timeout

-----------------------------------------------------------------------------
(* Responses and errors *)

\* thread t's call handles the response it holds, in this step
Handles(t) == call[t].pc = "response" /\ call'[t] # call[t]

\* this step of t's call neither starts an attempt nor sends nor records anything
EndsAtOnce(t) ==
    /\ Ended(call'[t])
    /\ call'[t].ended = now
    /\ call'[t].retry_counter = call[t].retry_counter
    /\ call'[t].dispatches = call[t].dispatches
    /\ sent_times' = sent_times

\* C4, as claimed: a 503 response, and a 429 response when
\* retry_over_query_limit is set, is not raised to the caller: it starts a
\* further attempt with the retry counter one higher (an attempt that sleeps
\* for its backoff, or that finds the deadline passed and raises Timeout).
C4_RetriableStartsAnAttempt ==
    [][\A t \in Threads :
          /\ Handles(t)
          /\ call[t].response.error = "none"
          /\ \/ call[t].response.status = 503
             \/ call[t].response.status = 429 /\ retry_over_query_limit
          => /\ call'[t].retry_counter = call[t].retry_counter + 1
             /\ \/ call'[t].pc = "backoff"
                \/ Ended(call'[t]) /\ call'[t].outcome.type = "Timeout"]_vars

\* C5, as claimed: with retry_over_query_limit false a 429 response makes
\* request raise the over-query-limit error at once: no backoff sleep, no
\* further HTTP request, no timestamp added to the window.
C5_QuotaErrorAtOnce ==
    [][\A t \in Threads :
          /\ Handles(t)
          /\ call[t].response.error = "none"
          /\ call[t].response.status = 429
          /\ ~retry_over_query_limit
          => /\ EndsAtOnce(t)
             /\ call'[t].outcome = Raise("_OverQueryLimit", 429, call[t].response.body)]_vars

\* C6, as claimed: a response whose status is not 200, not 429 and not 503
\* makes request raise ApiError with that status and the body, at once and
\* without a retry.
C6_ApiErrorAtOnce ==
    [][\A t \in Threads :
          /\ Handles(t)
          /\ call[t].response.error = "none"
          /\ call[t].response.status \notin {200, 429} \cup _RETRIABLE_STATUSES
          => /\ EndsAtOnce(t)
             /\ call'[t].outcome = Raise("ApiError", call[t].response.status,
                                         call[t].response.body)]_vars

\* C7: a call ends with the configuration error exactly when the client has no
\* key and the default base URL; it does so on its first attempt, before the
\* rate limit and before any HTTP request, and the window is as it was.
C7_ConfigurationError ==
    \A t \in Threads :
        LET c == call[t]
        IN /\ c.pc # "idle" =>
                (c.outcome = Raise("ValueError", 0, "")
                    <=> key = NoKey /\ base_url = _DEFAULT_BASE_URL)
           /\ c.outcome.type = "ValueError" =>
                /\ Ended(c)
                /\ c.ended = c.started
                /\ c.retry_counter = 0
                /\ c.limit_checked_at = None
                /\ c.waited = 0
                /\ c.dispatches = 0
                /\ sent_times = c.window_before

\* C7 witness: a call has ended with the configuration error
C7_Witness ==
    \E t \in Threads :
        /\ Ended(call[t])
        /\ call[t].outcome.type = "ValueError"
        /\ key = NoKey
        /\ base_url = _DEFAULT_BASE_URL

\* C8: a transport timeout makes request raise Timeout and any other transport
\* failure TransportError; the call ends at once: no retry, no further HTTP
\* request, the window unchanged.
C8_TransportFailureEndsCall ==
    [][\A t \in Threads :
          Handles(t) /\ call[t].response.error # "none"
          => /\ EndsAtOnce(t)
             /\ call'[t].outcome =
                   IF call[t].response.error = "requests.Timeout"
                   THEN Raise("Timeout", 0, "")
                   ELSE Raise("TransportError", 0, "")]_vars

\* C8 witness: a call whose HTTP request timed out has ended with Timeout
C8_Witness ==
    \E t \in Threads :
        /\ Ended(call[t])
        /\ call[t].response.error = "requests.Timeout"
        /\ call[t].outcome.type = "Timeout"
        /\ call[t].dispatches > 0

\* C9: the window changes only in the step in which an attempt that got
\* status 200 returns, and then by one timestamp, the current time, appended
\* (the oldest entry making room in a full window); every other step, however
\* a call ends or retries in it, leaves the window as it was.
C9_WindowChangesOnSuccessOnly ==
    [][sent_times' # sent_times =>
          \E t \in Threads :
              /\ Handles(t)
              /\ call[t].response.error = "none"
              /\ call[t].response.status = 200
              /\ ReturnedBody(call'[t])
              /\ \/ sent_times' = Append(sent_times, now)
                 \/ /\ Len(sent_times) = queries_per_minute
                    /\ sent_times' = Append(Tail(sent_times), now)]_vars

\* C9 witness: a call has returned a body and its timestamp ends the window
C9_Witness ==
    \E t \in Threads :
        /\ ReturnedBody(call[t])
        /\ sent_times # call[t].window_before
        /\ sent_times[Len(sent_times)] = call[t].ended

NonDecreasing(s) == \A i \in 1..(Len(s) - 1) : s[i] <= s[i + 1]

\* C10: the window holds at most queries_per_minute timestamps, in
\* non-decreasing order; an append to a full window drops the oldest entry
\* and no other.
C10_WindowIsBoundedDeque ==
    [][/\ Len(sent_times') <= queries_per_minute
       /\ NonDecreasing(sent_times')
       /\ sent_times' # sent_times /\ Len(sent_times) = queries_per_minute =>
             /\ Len(sent_times') = queries_per_minute
             /\ \A i \in 1..(Len(sent_times) - 1) : sent_times'[i] = sent_times[i + 1]]_vars

\* C10 witness: a full window has lost its oldest entry to a new timestamp
C10_Witness ==
    \E t \in Threads :
        /\ ReturnedBody(call[t])
        /\ Len(call[t].window_before) = queries_per_minute
        /\ Len(sent_times) = queries_per_minute
        /\ sent_times = Append(Tail(call[t].window_before), call[t].ended)

-----------------------------------------------------------------------------
(* Dry run *)

\* C11: a call with dry_run set on a client that has a key or a base URL of
\* its own sends no HTTP request, starts no retry and leaves the window as it
\* was; it ends returning None (after the rate-limit sleep, if one is due).
C11_DryRunSendsNothing ==
    \A t \in Threads :
        LET c == call[t]
        IN c.pc # "idle" /\ c.dry_run /\ ~(key = NoKey /\ base_url = _DEFAULT_BASE_URL) =>
              /\ c.pc \in {"ratewait", "done"}
              /\ c.dispatches = 0
              /\ c.sent_at = None
              /\ c.retry_counter = 0
              /\ sent_times = c.window_before
              /\ Ended(c) => c.outcome = Return("None", 0, "")

\* C11 witness: a dry run has returned None
C11_Witness ==
    \E t \in Threads :
        /\ Ended(call[t])
        /\ call[t].dry_run
        /\ call[t].outcome = Return("None", 0, "")
        /\ call[t].authed_url # ""

-----------------------------------------------------------------------------
(* The authenticated URL *)

\* the parameters of a query string
Parameters(query) == IF query = "" THEN << >> ELSE split(query, "&")

\* the query string of a URL that starts with path and "?"
QueryOf(url, path) == SubSeq(url, Len(path) + 2, Len(url))

\* the key of the parameter "key=value"
KeyOf(parameter) == split(parameter, "=")[1]

\* the query lists the given keys in ascending order, each once, and then `last`
ListsSorted(query, given, last) ==
    LET parameters == Parameters(query)
        n == Len(given.items)
    IN /\ Len(parameters) = n + Len(last)
       /\ \A i \in 1..n : \E j \in 1..n : KeyOf(parameters[i]) = given.items[j][1]
       /\ \A i, j \in 1..n : i < j =>
             KeyIndex(KeyOf(parameters[i])) < KeyIndex(KeyOf(parameters[j]))
       /\ \A i \in 1..Len(last) : parameters[n + i] = last[i]

\* C12: for a params mapping _generate_auth_url returns path, "?" and a query
\* string that lists the keys of the mapping in ascending order, each once,
\* and then api_key=<key> as the last parameter when a key is configured;
\* without a key and with a base URL of its own, the same without api_key.
\* {b: 2, a: 1} with the key KEY gives a=1&b=2&api_key=KEY.
C12_SortedQueryThenKey ==
    \A t \in Threads :
        LET c == call[t]
        IN c.pc = "built" /\ ~(key = NoKey /\ base_url = _DEFAULT_BASE_URL) =>
              /\ c.outcome.kind = "return"
              /\ SubSeq(c.authed_url, 1, Len(c.url) + 1) = c.url \o "?"
              /\ ListsSorted(QueryOf(c.authed_url, c.url), c.given,
                             IF key # NoKey THEN <<"api_key=" \o key>> ELSE << >>)
              /\ c.given.items = <<<<"b", PyInt(2)>>, <<"a", PyInt(1)>>>> /\ key = "KEY" =>
                    c.authed_url = "/directions?a=1&b=2&api_key=KEY"

\* C12 witness: the URL of {b: 2, a: 1} with the key KEY has been built
C12_Witness ==
    \E t \in Threads :
        /\ call[t].pc = "built"
        /\ call[t].given.items = <<<<"b", PyInt(2)>>, <<"a", PyInt(1)>>>>
        /\ key = "KEY"
        /\ call[t].authed_url = "/directions?a=1&b=2&api_key=KEY"

-----------------------------------------------------------------------------
(* Termination *)

\* the status of the response makes request retry
RetriableStatus(response) ==
    /\ response.error = "none"
    /\ \/ response.status \in _RETRIABLE_STATUSES
       \/ response.status = 429 /\ retry_over_query_limit

\* every response of the chain of c had a retriable status: the last one had,
\* or the chain ended at the deadline check of a retry; the ones before it were
\* retried
EveryResponseRetriable(c) ==
    /\ c.dispatches > 0
    /\ c.response = NoResponse \/ RetriableStatus(c.response)

\* C13, first part: every call to request ends, given that every HTTP request
\* returns or fails and the clock advances.
C13_EveryCallEnds ==
    \A t \in SeqThreads : (call[t].pc \notin {"idle", "done"}) ~> Ended(call[t])

\* C13, second part: a chain in which every response is a 503, or a 429 with
\* retry_over_query_limit set, ends with Timeout.
C13_RetriedChainEndsWithTimeout ==
    \A t \in Threads :
        Ended(call[t]) /\ EveryResponseRetriable(call[t]) =>
            call[t].outcome = Raise("Timeout", 0, "")

\* C13, second part, for responses with a JSON body
C13_RetriedJsonChainEndsWithTimeout ==
    \A t \in Threads :
        /\ Ended(call[t])
        /\ EveryResponseRetriable(call[t])
        /\ call[t].response # NoResponse => IsJson(call[t].response.body)
        => call[t].outcome = Raise("Timeout", 0, "")

-----------------------------------------------------------------------------
(* The deadline *)

\* thread t's call starts a retry in this step
Retries(t) == Handles(t) /\ call'[t].retry_counter = call[t].retry_counter + 1

\* thread t's caller calls request in this step
Calls(t) == call[t].pc \in {"idle", "done"} /\ call'[t] # call[t] /\ call'[t].pc # "built"

\* C14: every attempt measures the elapsed time from the start of the first
\* attempt of its chain, which a retry passes on unchanged; a retry that starts
\* with more than retry_timeout elapsed raises Timeout at once, with no backoff
\* sleep, no rate-limit wait and no HTTP request, whatever the response was;
\* with retry_timeout or less elapsed it goes on to its backoff sleep.
C14_DeadlineFromFirstAttempt ==
    [][\A t \in Threads :
          LET c == call[t]
              d == call'[t]
          IN /\ Calls(t) => d.first_request_time = now /\ d.started = now
                               /\ d.outcome # Raise("Timeout", 0, "")
             /\ Retries(t) =>
                   /\ d.first_request_time = c.started
                   /\ d.started = c.started
                   /\ IF now - c.started > retry_timeout
                      THEN /\ Ended(d)
                           /\ d.outcome = Raise("Timeout", 0, "")
                           /\ d.ended = now
                           /\ d.dispatches = c.dispatches
                           /\ d.wake = c.wake
                           /\ sent_times' = sent_times
                      ELSE /\ d.pc = "backoff"
                           /\ d.attempt_started = now]_vars

\* C14 witness: a retry found the deadline passed and the call ended with
\* Timeout, having sent one request per earlier attempt
C14_Witness ==
    \E t \in Threads :
        /\ Ended(call[t])
        /\ call[t].outcome = Raise("Timeout", 0, "")
        /\ call[t].retry_counter > 0
        /\ call[t].dispatches = call[t].retry_counter
        /\ call[t].ended - call[t].first_request_time > retry_timeout

-----------------------------------------------------------------------------
(* Backoff *)

\* the call is in an attempt that got past the deadline check
InAttempt(c) == c.pc \in {"backoff", "ratewait", "dispatch", "response"}

C16_FirstRetryBackoff ==
    \A t \in Threads :
        InAttempt(call[t]) /\ call[t].retry_counter = 1 =>
            /\ Second <= 4 * call[t].delay
            /\ 4 * call[t].delay < 3 * Second

-----------------------------------------------------------------------------
(* The params of a retry chain *)

\* how many parameters of the query of the URL have the key api_key
ApiKeys(url, path) ==
    LET parameters == Parameters(QueryOf(url, path))
    IN Cardinality({ i \in 1..Len(parameters) : KeyOf(parameters[i]) = "api_key" })

\* C17: building the URL leaves the params of the caller, a dict or a list, as
\* they were given, and with a key configured the URL of every attempt of a
\* chain has the parameter api_key exactly once.
C17_UrlBuildingPure ==
    \A t \in Threads :
        LET c == call[t]
        IN c.pc # "built" /\ c.authed_url # "" =>
              /\ c.params = c.given
              /\ key # NoKey => ApiKeys(c.authed_url, c.url) = 1

-----------------------------------------------------------------------------
(* Successes per minute *)

\* C18: with the calls made one after another, the timestamp recorded for a
\* success (status 200, body returned) is at least 60 seconds later than the
\* timestamp recorded queries_per_minute successes before it, which is the
\* oldest entry of the full window it is appended to; so no trailing 60-second
\* window holds more than queries_per_minute of the recorded timestamps.
C18_SuccessesAMinuteApart ==
    [][sent_times' # sent_times /\ Len(sent_times) = queries_per_minute =>
          /\ sent_times'[Len(sent_times')] = now
          /\ now >= sent_times[1] + Minute * Second
          /\ ~MoreThanInAMinute(Append(sent_times, now), queries_per_minute)]_vars

\* C18 witness: a success has been recorded exactly 60 seconds after the
\* oldest entry of the full window its call found
C18_Witness ==
    \E t \in Threads :
        /\ ReturnedBody(call[t])
        /\ Len(call[t].window_before) = queries_per_minute
        /\ sent_times[Len(sent_times)] = call[t].ended
        /\ call[t].ended = call[t].window_before[1] + Minute * Second

-----------------------------------------------------------------------------
(* Two concurrent callers *)

\* C19, as claimed: with two threads calling request on the one client, the
\* window never holds more than queries_per_minute entries and no trailing
\* 60-second window holds more than queries_per_minute recorded successes: a
\* success is recorded in a full window no earlier than 60 seconds after the
\* oldest entry of that window.
C19_ConcurrentCallersKeepQuota ==
    [][/\ Len(sent_times') <= queries_per_minute
       /\ sent_times' # sent_times /\ Len(sent_times) = queries_per_minute =>
             now >= sent_times[1] + Minute * Second]_vars

\* C19, amended: with two threads calling request on the one client, the
\* window never holds more than queries_per_minute entries, and the success of
\* a call is recorded no earlier than 60 seconds after the oldest entry of the
\* full window that the call found at its own rate-limit check; what the other
\* thread appends after that check is not looked at.
C19_WindowBoundedQuotaAsChecked ==
    /\ Len(sent_times) <= queries_per_minute
    /\ \A t \in Threads :
          LET c == call[t]
          IN c.pc \in {"dispatch", "response"} \/ ReturnedBody(c) =>
                /\ c.limit_checked_at # None
                /\ c.oldest # None => c.sent_at >= c.oldest + Minute * Second

\* C19 witness: both threads' calls passed the rate-limit check of a client
\* with queries_per_minute = 1 before either success was recorded, and both
\* successes were recorded at the same time
C19_Witness ==
    /\ queries_per_minute = 1
    /\ \A t \in Threads :
          /\ ReturnedBody(call[t])
          /\ call[t].window_before = << >>
          /\ call[t].oldest = None
    /\ call[1].ended = call[2].ended
    /\ sent_times = <<call[1].ended>>

-----------------------------------------------------------------------------
(* The API methods *)

\* C20: after a call of an API method has ended, whether it returned or
\* raised, the client has no attribute _extra_params.
C20_NoExtraParamsAfterCall ==
    \A t \in SeqThreads :
        call[t].api /\ Ended(call[t]) => _extra_params = Absent

\* C20, for the calls that returned
C20_NoExtraParamsAfterReturn ==
    \A t \in SeqThreads :
        call[t].api /\ Ended(call[t]) /\ call[t].outcome.kind = "return" =>
            _extra_params = Absent

====
